---- MODULE Spec2Model ----
(***************************************************************************)
(* Model of the "catch the cat" game core: MainScene (src/src/scenes/      *)
(* mainScene.ts) with its grid of blocks, the game state and status bar,   *)
(* and the Cat it drives.  The Cat sprite (sprites/cat.ts) is not part of  *)
(* the sources at hand; its reset / isCaught / step and the moment it      *)
(* emits "escaped" and "win" follow the written specification (sections    *)
(* 4.2, 4.3, 4.4).                                                         *)
(*                                                                         *)
(* A model value m is the record                                           *)
(*   [isWall : cell -> BOOLEAN, cat : <<i, j>>, state, statusText]         *)
(* and every method is an operator from model values to model values,     *)
(* statement by statement.  Turns are atomic (the scene is single-threaded *)
(* and event driven), so one action is one complete handler call.          *)
(***************************************************************************)
EXTENDS Integers, Sequences, FiniteSets, TLC

VARIABLES w, h, isWall, cat, state, statusText,
          op, placed, ret, branch, prevOp, prevState

vars == <<w, h, isWall, cat, state, statusText,
          op, placed, ret, branch, prevOp, prevState>>

(***************************************************************************)
(* Bounds of the model.                                                    *)
(***************************************************************************)
\* board sizes (w, h) handed to the constructor
Dims == {<<1, 2>>, <<2, 2>>, <<3, 3>>, <<5, 5>>, <<8, 7>>}

\* clicks reach this many cells beyond each edge of the board
MaxOut == 1

\* boards of at most this many cells are clicked everywhere
MaxFullBoard == 25

\* on the larger board the clicks are those of one trapping line of play
TrapCells ==
    {<<1, 1>>, <<1, 2>>, <<1, 3>>, <<1, 4>>, <<1, 5>>, <<2, 0>>, <<2, 6>>,
     <<3, 0>>, <<3, 3>>, <<3, 6>>, <<4, 0>>, <<4, 1>>, <<4, 2>>, <<4, 4>>,
     <<4, 5>>, <<4, 6>>}

(***************************************************************************)
(* enum GameState and the status messages                                  *)
(***************************************************************************)
PLAYING == "playing"
WIN == "win"
LOSE == "lose"
GameState == {PLAYING, WIN, LOSE}

MsgLose == <<"cat reached the edge, you lose">>
MsgWin == <<"cat has nowhere to go, you win">>
MsgGameOver == <<"game is over, starting again">>
MsgNoCell == <<"code error, no such position">>
MsgIsWall == <<"clicked position is already a wall">>
MsgIsCat == <<"clicked position is the cat's position">>
MsgClicked(i, j) == <<"you clicked", i, j>>
MsgConcede == <<"cat concedes, you win">>
MsgStart == <<"click the dots, surround the cat">>

Null == <<>>

\* Op applied to the value v, which is computed once
With(v, Op(_)) == CHOOSE r \in {Op(x) : x \in {v}} : TRUE

(***************************************************************************)
(* MainScene                                                               *)
(***************************************************************************)
Cells(ww, hh) == (0 .. ww - 1) \X (0 .. hh - 1)

createBlocks(ww, hh) == [c \in Cells(ww, hh) |-> FALSE]

setStatusText(m, message) == [m EXCEPT !.statusText = message]

\* mutant: the setter stores the state and leaves the status bar alone
setState_noText(m, value) ==
    CASE value = PLAYING -> [m EXCEPT !.state = value]
      [] value = LOSE -> [m EXCEPT !.state = value]
      [] value = WIN -> [m EXCEPT !.state = value]
      [] OTHER -> m

setState(m, value) ==
    CASE value = PLAYING -> [m EXCEPT !.state = value]
      [] value = LOSE -> [setStatusText(m, MsgLose) EXCEPT !.state = value]
      [] value = WIN -> [setStatusText(m, MsgWin) EXCEPT !.state = value]
      [] OTHER -> m

\* mutant: the offsets of the even rows are used on every row
getNeighbours_noParity(i, j) ==
    << <<i - 1, j>>, <<i - 1, j - 1>>, <<i, j - 1>>,
       <<i + 1, j>>, <<i, j + 1>>, <<i - 1, j + 1>> >>

\* mutant: bottom-left is listed before bottom-right
getNeighbours_bottomSwapped(i, j) ==
    IF j % 2 = 0
    THEN << <<i - 1, j>>, <<i - 1, j - 1>>, <<i, j - 1>>,
            <<i + 1, j>>, <<i - 1, j + 1>>, <<i, j + 1>> >>
    ELSE << <<i - 1, j>>, <<i, j - 1>>, <<i + 1, j - 1>>,
            <<i + 1, j>>, <<i, j + 1>>, <<i + 1, j + 1>> >>

getNeighbours(i, j) ==
    IF j % 2 = 0
    THEN << <<i - 1, j>>, <<i - 1, j - 1>>, <<i, j - 1>>,
            <<i + 1, j>>, <<i, j + 1>>, <<i - 1, j + 1>> >>
    ELSE << <<i - 1, j>>, <<i, j - 1>>, <<i + 1, j - 1>>,
            <<i + 1, j>>, <<i + 1, j + 1>>, <<i, j + 1>> >>

\* mutant: the upper bounds are tested with <= in place of <
getBlock_inclusive(i, j) ==
    IF ~(i >= 0 /\ i <= w /\ j >= 0 /\ j <= h) THEN Null ELSE <<i, j>>

getBlock(i, j) ==
    IF ~(i >= 0 /\ i < w /\ j >= 0 /\ j < h) THEN Null ELSE <<i, j>>

\* mutant: the "escaped" handler reports a win
OnEscaped_win(m) == setState(m, WIN)

OnEscaped(m) == setState(m, LOSE)

OnWin(m) == setState(m, WIN)

(***************************************************************************)
(* Cat                                                                     *)
(***************************************************************************)
StartPosition == <<w \div 2, h \div 2>>

catReset(m) == [m EXCEPT !.cat = StartPosition]

isBoundary(c) == c[1] = 0 \/ c[1] = w - 1 \/ c[2] = 0 \/ c[2] = h - 1

isOpen(m, c) == getBlock(c[1], c[2]) # Null /\ ~m.isWall[c]

\* the six neighbours of every cell of the boards, as sets
NeighbourSet ==
    [c \in UNION {Cells(d[1], d[2]) : d \in Dims} |->
        {getNeighbours(c[1], c[2])[k] : k \in 1 .. 6}]

OpenNeighbours(m, c) == {n \in NeighbourSet[c] : isOpen(m, n)}

\* breadth-first layers over open cells, marking on enqueue
RECURSIVE Layers(_, _, _, _)
Layers(m, frontier, visited, acc) ==
    IF frontier = {} THEN acc
    ELSE With((UNION {OpenNeighbours(m, c) : c \in frontier}) \ visited,
              LAMBDA next :
                  Layers(m, next, visited \cup next, Append(acc, frontier)))

Reachable(m, start) ==
    IF ~isOpen(m, start) THEN {}
    ELSE With(Layers(m, {start}, {start}, <<>>),
              LAMBDA ls : UNION {ls[k] : k \in 1 .. Len(ls)})

\* the same traversal, stopping at the first boundary cell it meets
RECURSIVE reachesBoundary(_, _, _)
reachesBoundary(m, frontier, visited) ==
    IF frontier = {} THEN FALSE
    ELSE IF \E c \in frontier : isBoundary(c) THEN TRUE
    ELSE With((UNION {OpenNeighbours(m, c) : c \in frontier}) \ visited,
              LAMBDA next : reachesBoundary(m, next, visited \cup next))

\* mutant: a start cell that is a wall counts as not enclosed
isEnclosed_wallStartFree(m, start) ==
    IF ~isOpen(m, start) THEN FALSE
    ELSE ~reachesBoundary(m, {start}, {start})

isEnclosed(m, start) ==
    IF ~isOpen(m, start) THEN TRUE
    ELSE ~reachesBoundary(m, {start}, {start})

distanceToBoundary(m, start) ==
    With({c \in Reachable(m, start) : isBoundary(c)}, LAMBDA edge :
    With(Layers(m, edge, edge, <<>>), LAMBDA ls :
        [c \in UNION {ls[k] : k \in 1 .. Len(ls)} |->
            (CHOOSE k \in 1 .. Len(ls) : c \in ls[k]) - 1]))

isCaught(m) == isEnclosed(m, m.cat)

\* mutant: among the nearest neighbours the last listed one is taken
solver_lastOfTies(m) ==
    With(distanceToBoundary(m, m.cat), LAMBDA dist :
    With(getNeighbours(m.cat[1], m.cat[2]), LAMBDA nb :
    With({k \in 1 .. 6 : isOpen(m, nb[k]) /\ nb[k] \in DOMAIN dist},
         LAMBDA cand :
            IF cand = {} THEN 0
            ELSE CHOOSE k \in cand :
                    \A l \in cand : dist[nb[k]] < dist[nb[l]]
                                    \/ (dist[nb[k]] = dist[nb[l]] /\ k >= l))))

\* the direction 1..6 of the move the cat picks, 0 when it has none
solver(m) ==
    With(distanceToBoundary(m, m.cat), LAMBDA dist :
    With(getNeighbours(m.cat[1], m.cat[2]), LAMBDA nb :
    With({k \in 1 .. 6 : isOpen(m, nb[k]) /\ nb[k] \in DOMAIN dist},
         LAMBDA cand :
            IF cand = {} THEN 0
            ELSE CHOOSE k \in cand :
                    \A l \in cand : dist[nb[k]] < dist[nb[l]]
                                    \/ (dist[nb[k]] = dist[nb[l]] /\ k <= l))))

isEscaped(m) ==
    \E k \in 1 .. 6 :
        LET n == getNeighbours(m.cat[1], m.cat[2])[k]
        IN  getBlock(n[1], n[2]) = Null

step(m) ==
    With(solver(m), LAMBDA direction :
        IF direction = 0
        THEN [m |-> OnWin(m), result |-> FALSE]
        ELSE With([m EXCEPT !.cat =
                      getNeighbours(m.cat[1], m.cat[2])[direction]],
                  LAMBDA moved :
                      [m |-> IF isEscaped(moved) THEN OnEscaped(moved)
                                                 ELSE moved,
                       result |-> TRUE]))

(***************************************************************************)
(* MainScene.reset and MainScene.playerClick                               *)
(***************************************************************************)
\* mutant: reset() leaves the game state as it was
reset_keepState(m) ==
    LET m1 == catReset(m)
        m2 == [m1 EXCEPT !.isWall = [c \in DOMAIN m1.isWall |-> FALSE]]
    IN  setStatusText(m2, MsgStart)

\* mutant: reset() clears the blocks only while a game is being played
reset_clearWhenPlaying(m) ==
    LET m1 == catReset(m)
        m2 == IF m1.state = PLAYING
              THEN [m1 EXCEPT !.isWall = [c \in DOMAIN m1.isWall |-> FALSE]]
              ELSE m1
        m3 == setState(m2, PLAYING)
    IN  setStatusText(m3, MsgStart)

reset(m) ==
    LET m1 == catReset(m)
        m2 == [m1 EXCEPT !.isWall = [c \in DOMAIN m1.isWall |-> FALSE]]
        m3 == setState(m2, PLAYING)
    IN  setStatusText(m3, MsgStart)

\* mutant: the enclosure check is missing, the cat is always asked to move
afterWall_noCaughtCheck(m, i, j) ==
    With(setStatusText(m, MsgClicked(i, j)), LAMBDA m1 :
    With(step(m1), LAMBDA s :
        IF ~s.result
        THEN [m |-> setState(setStatusText(s.m, MsgConcede), WIN),
              ret |-> TRUE, branch |-> "concede", placed |-> <<i, j>>]
        ELSE [m |-> s.m, ret |-> TRUE, branch |-> "moved",
              placed |-> <<i, j>>]))

\* mutant: the winning placement reports true like every other placement
afterWall_caughtReturnsTrue(m, i, j) ==
    IF isCaught(m)
    THEN [m |-> setState(setStatusText(m, MsgWin), WIN),
          ret |-> TRUE, branch |-> "caught", placed |-> <<i, j>>]
    ELSE With(setStatusText(m, MsgClicked(i, j)), LAMBDA m1 :
         With(step(m1), LAMBDA s :
             IF ~s.result
             THEN [m |-> setState(setStatusText(s.m, MsgConcede), WIN),
                   ret |-> TRUE, branch |-> "concede", placed |-> <<i, j>>]
             ELSE [m |-> s.m, ret |-> TRUE, branch |-> "moved",
                   placed |-> <<i, j>>]))

\* mutant: a cat that cannot move makes the player lose
afterWall_concedeLose(m, i, j) ==
    IF isCaught(m)
    THEN [m |-> setState(setStatusText(m, MsgWin), WIN),
          ret |-> FALSE, branch |-> "caught", placed |-> <<i, j>>]
    ELSE With(setStatusText(m, MsgClicked(i, j)), LAMBDA m1 :
         With(step(m1), LAMBDA s :
             IF ~s.result
             THEN [m |-> setState(setStatusText(s.m, MsgConcede), LOSE),
                   ret |-> TRUE, branch |-> "concede", placed |-> <<i, j>>]
             ELSE [m |-> s.m, ret |-> TRUE, branch |-> "moved",
                   placed |-> <<i, j>>]))

\* mutant: the test of step()'s result is inverted
afterWall_resultInverted(m, i, j) ==
    IF isCaught(m)
    THEN [m |-> setState(setStatusText(m, MsgWin), WIN),
          ret |-> FALSE, branch |-> "caught", placed |-> <<i, j>>]
    ELSE With(setStatusText(m, MsgClicked(i, j)), LAMBDA m1 :
         With(step(m1), LAMBDA s :
             IF s.result
             THEN [m |-> setState(setStatusText(s.m, MsgConcede), WIN),
                   ret |-> TRUE, branch |-> "concede", placed |-> <<i, j>>]
             ELSE [m |-> s.m, ret |-> TRUE, branch |-> "moved",
                   placed |-> <<i, j>>]))

afterWall(m, i, j) ==
    IF isCaught(m)
    THEN [m |-> setState(setStatusText(m, MsgWin), WIN),
          ret |-> FALSE, branch |-> "caught", placed |-> <<i, j>>]
    ELSE With(setStatusText(m, MsgClicked(i, j)), LAMBDA m1 :
         With(step(m1), LAMBDA s :
             IF ~s.result
             THEN [m |-> setState(setStatusText(s.m, MsgConcede), WIN),
                   ret |-> TRUE, branch |-> "concede", placed |-> <<i, j>>]
             ELSE [m |-> s.m, ret |-> TRUE, branch |-> "moved",
                   placed |-> <<i, j>>]))

\* mutant: the cat's own cell is accepted as a target
playerClick_noCatCheck(m, i, j) ==
    IF m.state # PLAYING
    THEN [m |-> reset(setStatusText(m, MsgGameOver)),
          ret |-> FALSE, branch |-> "over", placed |-> Null]
    ELSE LET block == getBlock(i, j)
         IN  IF block = Null
             THEN [m |-> setStatusText(m, MsgNoCell),
                   ret |-> FALSE, branch |-> "nocell", placed |-> Null]
             ELSE IF m.isWall[block]
             THEN [m |-> setStatusText(m, MsgIsWall),
                   ret |-> FALSE, branch |-> "wall", placed |-> Null]
             ELSE With([m EXCEPT !.isWall[block] = TRUE],
                       LAMBDA m1 : afterWall(m1, i, j))

\* mutant: a cell that is already a wall is accepted as a target
playerClick_noWallCheck(m, i, j) ==
    IF m.state # PLAYING
    THEN [m |-> reset(setStatusText(m, MsgGameOver)),
          ret |-> FALSE, branch |-> "over", placed |-> Null]
    ELSE LET block == getBlock(i, j)
         IN  IF block = Null
             THEN [m |-> setStatusText(m, MsgNoCell),
                   ret |-> FALSE, branch |-> "nocell", placed |-> Null]
             ELSE IF m.cat[1] = i /\ m.cat[2] = j
             THEN [m |-> setStatusText(m, MsgIsCat),
                   ret |-> FALSE, branch |-> "cat", placed |-> Null]
             ELSE With([m EXCEPT !.isWall[block] = TRUE],
                       LAMBDA m1 : afterWall(m1, i, j))

\* mutant: a click on a finished game does not start a new one
playerClick_overNoReset(m, i, j) ==
    IF m.state # PLAYING
    THEN [m |-> setStatusText(m, MsgGameOver),
          ret |-> FALSE, branch |-> "over", placed |-> Null]
    ELSE LET block == getBlock(i, j)
         IN  IF block = Null
             THEN [m |-> setStatusText(m, MsgNoCell),
                   ret |-> FALSE, branch |-> "nocell", placed |-> Null]
             ELSE IF m.isWall[block]
             THEN [m |-> setStatusText(m, MsgIsWall),
                   ret |-> FALSE, branch |-> "wall", placed |-> Null]
             ELSE IF m.cat[1] = i /\ m.cat[2] = j
             THEN [m |-> setStatusText(m, MsgIsCat),
                   ret |-> FALSE, branch |-> "cat", placed |-> Null]
             ELSE With([m EXCEPT !.isWall[block] = TRUE],
                       LAMBDA m1 : afterWall(m1, i, j))

\* mutant: a finished game still takes clicks
playerClick_noOverGuard(m, i, j) ==
    IF FALSE
    THEN [m |-> m, ret |-> FALSE, branch |-> "over", placed |-> Null]
    ELSE LET block == getBlock(i, j)
         IN  IF block = Null
             THEN [m |-> setStatusText(m, MsgNoCell),
                   ret |-> FALSE, branch |-> "nocell", placed |-> Null]
             ELSE IF m.isWall[block]
             THEN [m |-> setStatusText(m, MsgIsWall),
                   ret |-> FALSE, branch |-> "wall", placed |-> Null]
             ELSE IF m.cat[1] = i /\ m.cat[2] = j
             THEN [m |-> setStatusText(m, MsgIsCat),
                   ret |-> FALSE, branch |-> "cat", placed |-> Null]
             ELSE With([m EXCEPT !.isWall[block] = TRUE],
                       LAMBDA m1 : afterWall(m1, i, j))

\* mutant: a click on a wall takes the wall away
playerClick_wallToggles(m, i, j) ==
    IF m.state # PLAYING
    THEN [m |-> reset(setStatusText(m, MsgGameOver)),
          ret |-> FALSE, branch |-> "over", placed |-> Null]
    ELSE LET block == getBlock(i, j)
         IN  IF block = Null
             THEN [m |-> setStatusText(m, MsgNoCell),
                   ret |-> FALSE, branch |-> "nocell", placed |-> Null]
             ELSE IF m.isWall[block]
             THEN [m |-> setStatusText([m EXCEPT !.isWall[block] = FALSE],
                                       MsgIsWall),
                   ret |-> FALSE, branch |-> "wall", placed |-> Null]
             ELSE IF m.cat[1] = i /\ m.cat[2] = j
             THEN [m |-> setStatusText(m, MsgIsCat),
                   ret |-> FALSE, branch |-> "cat", placed |-> Null]
             ELSE With([m EXCEPT !.isWall[block] = TRUE],
                       LAMBDA m1 : afterWall(m1, i, j))

playerClick(m, i, j) ==
    IF m.state # PLAYING
    THEN [m |-> reset(setStatusText(m, MsgGameOver)),
          ret |-> FALSE, branch |-> "over", placed |-> Null]
    ELSE LET block == getBlock(i, j)
         IN  IF block = Null
             THEN [m |-> setStatusText(m, MsgNoCell),
                   ret |-> FALSE, branch |-> "nocell", placed |-> Null]
             ELSE IF m.isWall[block]
             THEN [m |-> setStatusText(m, MsgIsWall),
                   ret |-> FALSE, branch |-> "wall", placed |-> Null]
             ELSE IF m.cat[1] = i /\ m.cat[2] = j
             THEN [m |-> setStatusText(m, MsgIsCat),
                   ret |-> FALSE, branch |-> "cat", placed |-> Null]
             ELSE With([m EXCEPT !.isWall[block] = TRUE],
                       LAMBDA m1 : afterWall(m1, i, j))

(***************************************************************************)
(* The state machine                                                       *)
(***************************************************************************)
Model ==
    [isWall |-> isWall, cat |-> cat, state |-> state,
     statusText |-> statusText]

Store(m) ==
    /\ isWall' = m.isWall
    /\ cat' = m.cat
    /\ state' = m.state
    /\ statusText' = m.statusText

ClickSet ==
    IF w * h <= MaxFullBoard
    THEN (0 - MaxOut .. w - 1 + MaxOut) \X (0 - MaxOut .. h - 1 + MaxOut)
    ELSE TrapCells

\* constructor and create(): blocks, cat and status bar are made, then reset()
Init ==
    /\ \E d \in Dims : w = d[1] /\ h = d[2]
    /\ LET m == reset([isWall |-> createBlocks(w, h), cat |-> <<0, 0>>,
                       state |-> PLAYING, statusText |-> <<>>])
       IN  /\ isWall = m.isWall
           /\ cat = m.cat
           /\ state = m.state
           /\ statusText = m.statusText
    /\ op = "create"
    /\ placed = Null
    /\ ret = FALSE
    /\ branch = "create"
    /\ prevOp = "create"
    /\ prevState = PLAYING

\* bookkeeping: the call before this one and the game state it started in
History ==
    /\ prevOp' = op
    /\ prevState' = state

\* a block's "player_click" event with the block's coordinates
PlayerClickAt(c) ==
    \E m \in {Model} :
        \E r \in {playerClick(m, c[1], c[2])} :
            /\ Store(r.m)
            /\ op' = "playerClick"
            /\ placed' = r.placed
            /\ ret' = r.ret
            /\ branch' = r.branch
            /\ History
            /\ UNCHANGED <<w, h>>

PlayerClick == \E c \in ClickSet : PlayerClickAt(c)

\* the reset button's "pointerup" event
ResetButton ==
    /\ Store(reset(Model))
    /\ op' = "reset"
    /\ placed' = Null
    /\ branch' = "reset"
    /\ History
    /\ UNCHANGED <<w, h, ret>>

Next == PlayerClick \/ ResetButton

Spec == Init /\ [][Next]_vars

TypeOK ==
    /\ <<w, h>> \in Dims
    /\ DOMAIN isWall = Cells(w, h)
    /\ \A c \in Cells(w, h) : isWall[c] \in BOOLEAN
    /\ state \in GameState
    /\ prevState \in GameState
    /\ ret \in BOOLEAN

(***************************************************************************)
(* Properties                                                              *)
(***************************************************************************)
AllOpen == \A c \in Cells(w, h) : ~isWall[c]

\* what reset() is said to leave behind
FreshGame == AllOpen /\ cat = StartPosition /\ state = PLAYING

InvalidTarget(c) ==
    \/ getBlock(c[1], c[2]) = Null
    \/ isWall[c]
    \/ c = cat

\* the agent at its position before the call, among the blocks after it
EnclosedAfterPlacement == isEnclosed([isWall |-> isWall'], cat)

\* C1: between calls the agent's position is an in-bounds cell and that cell
\* is not a wall.
C1_AgentOnOpenCell ==
    /\ getBlock(cat[1], cat[2]) # Null
    /\ ~isWall[cat]

\* a click on the agent's own cell was refused while walls stood on the board
C1_Witness ==
    /\ branch = "cat"
    /\ state = PLAYING
    /\ cat # StartPosition
    /\ \E c \in Cells(w, h) : isWall[c]

\* C2: playerClick on any target while the state is WIN or LOSE returns
\* false and resets: the state is PLAYING, no cell is a wall and the agent is
\* at its start position afterwards, so the clicked cell is no wall either.
C2_GameOverClickResets ==
    [][(state # PLAYING /\ op' = "playerClick")
          => (ret' = FALSE /\ FreshGame' /\ placed' = Null)]_vars

\* a click on a won game started a new game
C2_Witness ==
    /\ branch = "over"
    /\ prevState = WIN
    /\ state = PLAYING
    /\ ret = FALSE

\* C3: while PLAYING, playerClick on a target that is out of bounds, already
\* a wall or the agent's cell returns false and leaves the state, every
\* cell's isWall and the agent's position unchanged.
C3_InvalidClickRejected ==
    [][\A c \in ClickSet :
          (state = PLAYING /\ InvalidTarget(c) /\ PlayerClickAt(c))
              => (ret' = FALSE /\ UNCHANGED <<state, isWall, cat>>)]_vars

\* a click on a cell that is already a wall was refused
C3_Witness ==
    /\ branch = "wall"
    /\ ret = FALSE
    /\ state = PLAYING
    /\ \E c \in Cells(w, h) : isWall[c]

\* C4: while PLAYING, a valid click that leaves the agent enclosed turns the
\* clicked cell, and no other, into a wall, sets the state to WIN, returns
\* false and does not move the agent.
C4_EnclosingClickWins ==
    [][(state = PLAYING /\ op' = "playerClick" /\ placed' # Null
          /\ EnclosedAfterPlacement)
          => /\ isWall' = [isWall EXCEPT ![placed'] = TRUE]
             /\ ~isWall[placed']
             /\ state' = WIN
             /\ ret' = FALSE
             /\ cat' = cat]_vars

\* the agent, off the boundary, was enclosed by the wall just placed
C4_Witness ==
    /\ branch = "caught"
    /\ state = WIN
    /\ placed # Null
    /\ isCaught(Model)
    /\ ~isBoundary(cat)

\* C5 as stated: playerClick returns true exactly when this call placed a
\* wall, and false exactly when the click was rejected or the game was over.
C5_TrueIffWallPlaced ==
    op = "playerClick" => (ret <=> placed # Null)

\* C5 amended: playerClick returns true exactly when this call placed a wall
\* that did not enclose the agent; it returns false when the click was
\* rejected, when the game was over, and when the placed wall enclosed the
\* agent.
C5_TrueIffPlacedAndNotEnclosed ==
    [][op' = "playerClick"
          => (ret' <=> (state = PLAYING /\ placed' # Null
                          /\ ~EnclosedAfterPlacement))]_vars

\* a wall was placed by the call, which returned false all the same
C5_Witness ==
    /\ op = "playerClick"
    /\ placed # Null
    /\ isWall[placed]
    /\ ~ret

\* C6: once the state is WIN or LOSE, a step either changes none of state,
\* isWall and the agent's position, or is a reset; the state never goes
\* from WIN to LOSE or from LOSE to WIN.
C6_TerminalUntilReset ==
    [][state # PLAYING
          => (UNCHANGED <<state, isWall, cat>> \/ FreshGame')]_vars

\* a lost game was left by the reset button
C6_Witness ==
    /\ prevState = LOSE
    /\ op = "reset"
    /\ state = PLAYING

\* C7: when step() returns false after a valid wall placement in PLAYING,
\* the state becomes WIN and the agent stays where it was.
C7_ConcedeWins ==
    [][(state = PLAYING /\ op' = "playerClick" /\ branch' = "concede")
          => (state' = WIN /\ cat' = cat /\ placed' # Null)]_vars

\* the cat had no move left after a placement that did not enclose it
C7_Witness ==
    /\ branch = "concede"
    /\ prevState = PLAYING
    /\ placed # Null
    /\ ~isCaught(Model)

AgentMovedOntoBoundary ==
    /\ op' = "playerClick"
    /\ placed' # Null
    /\ cat' # cat
    /\ isBoundary(cat')

\* C8: an accepted click in which the agent moves onto a boundary cell ends
\* in LOSE, and the state becomes LOSE in no other way.
C8_LoseIffMovedOntoBoundary ==
    [][/\ AgentMovedOntoBoundary => state' = LOSE
       /\ (state # LOSE /\ state' = LOSE) => AgentMovedOntoBoundary]_vars

\* the agent has just stepped from the interior onto the boundary
C8_Witness ==
    /\ state = LOSE
    /\ branch = "moved"
    /\ isBoundary(cat)
    /\ ~isBoundary(StartPosition)

\* C9: reset() ends with every cell's isWall false, the agent at its start
\* position and the state PLAYING, whatever the state it was called in.
C9_ResetRestores ==
    op = "reset" => FreshGame

\* the reset button was used on a won game
C9_Witness ==
    /\ op = "reset"
    /\ prevState = WIN
    /\ FreshGame

\* C10: reset() twice in a row leaves the walls, the agent's position, the
\* game state and the status text as a single reset() does.
C10_ResetIdempotent ==
    reset(reset(Model)) = reset(Model)

\* the reset button was used twice in a row
C10_Witness ==
    /\ op = "reset"
    /\ prevOp = "reset"
    /\ statusText = MsgStart
    /\ FreshGame

\* the board and the cells up to MaxOut beyond each of its edges
Around == (0 - MaxOut .. w - 1 + MaxOut) \X (0 - MaxOut .. h - 1 + MaxOut)

InGrid(c) == c[1] >= 0 /\ c[1] < w /\ c[2] >= 0 /\ c[2] < h

NeighboursOf(c) == {getNeighbours(c[1], c[2])[k] : k \in 1 .. 6}

\* C11: for every in-bounds cell getNeighbours gives exactly 6 pairs, none
\* of them the cell itself, and for every pair of cells of which at least
\* one is in bounds, the first is a neighbour of the second iff the second
\* is a neighbour of the first.
C11_NeighboursSymmetric ==
    \A e \in Around :
        LET nb == NeighboursOf(e)
        IN  /\ InGrid(e) => /\ Len(getNeighbours(e[1], e[2])) = 6
                            /\ Cardinality(nb) = 6
                            /\ e \notin nb
            /\ \A n \in nb :
                  (InGrid(e) \/ InGrid(n)) => e \in NeighboursOf(n)

\* the agent stands on a boundary cell it has moved to, next to a cell
\* outside the grid that has the agent's cell among its own neighbours
C11_Witness ==
    /\ branch = "moved"
    /\ isBoundary(cat)
    /\ \E n \in NeighboursOf(cat) :
          /\ getBlock(n[1], n[2]) = Null
          /\ cat \in NeighboursOf(n)

\* C12: getNeighbours lists left, top-left, top-right, right, bottom-right,
\* bottom-left in this order, with left = (i-1, j), right = (i+1, j), and
\* top-left = (i-1, j-1), top-right = (i, j-1), bottom-left = (i-1, j+1),
\* bottom-right = (i, j+1) for even j, each shifted by one column to the
\* right for odd j.
C12_NeighbourOrder ==
    \A c \in Around :
        LET i == c[1]
            j == c[2]
            s == IF j % 2 = 0 THEN 0 ELSE 1
        IN  getNeighbours(i, j) =
                << <<i - 1, j>>,
                   <<i - 1 + s, j - 1>>, <<i + s, j - 1>>,
                   <<i + 1, j>>,
                   <<i + s, j + 1>>, <<i - 1 + s, j + 1>> >>

\* the agent has moved from an even row to the first listed of its nearest
\* neighbours on an odd row
C12_Witness ==
    /\ branch = "moved"
    /\ StartPosition[2] % 2 = 0
    /\ cat[2] % 2 = 1
    /\ cat \in NeighboursOf(StartPosition)
    /\ \E c \in Cells(w, h) : isWall[c]

Walls == {c \in Cells(w, h) : isWall[c]}

\* C13: a playerClick made while PLAYING changes the isWall of at most one
\* cell, the clicked one, from false to true; and a cell goes from wall to
\* open only in a step that runs reset(): the reset button, or a click on
\* a game that is over.
C13_WallsOnlyGrow ==
    [][/\ (state = PLAYING /\ op' = "playerClick")
            => \/ isWall' = isWall
               \/ /\ placed' # Null
                  /\ ~isWall[placed']
                  /\ isWall' = [isWall EXCEPT ![placed'] = TRUE]
       /\ (\E c \in Cells(w, h) : isWall[c] /\ ~isWall'[c])
            => (op' = "reset" \/ branch' = "over")]_vars

\* a third wall was added to two standing ones and the game goes on
C13_Witness ==
    /\ state = PLAYING
    /\ branch = "moved"
    /\ placed # Null
    /\ isWall[placed]
    /\ Cardinality(Walls) >= 3

\* the agent's new cell is the first listed of the open in-bounds neighbours
\* of its old cell that are nearest to the boundary, among the blocks as the
\* call leaves them
MovedToNearestNeighbour ==
    With(distanceToBoundary([isWall |-> isWall'], cat), LAMBDA dist :
    With(getNeighbours(cat[1], cat[2]), LAMBDA nb :
        \E k \in 1 .. 6 :
            /\ cat' = nb[k]
            /\ cat' # cat
            /\ InGrid(nb[k])
            /\ ~isWall'[nb[k]]
            /\ \A l \in 1 .. 6 :
                  (InGrid(nb[l]) /\ ~isWall'[nb[l]])
                      => \/ dist[nb[k]] < dist[nb[l]]
                         \/ (dist[nb[k]] = dist[nb[l]] /\ k <= l)))

\* C14: in a click that placed a wall, when step() returned true the agent
\* has moved to an in-bounds, open neighbour of its previous cell, the one
\* with the least distance to the boundary and, among equals, the first in
\* getNeighbours order; when step() returned false, or was not called, the
\* agent has not moved.
C14_StepMovesToNearest ==
    [][(state = PLAYING /\ op' = "playerClick" /\ placed' # Null)
          => IF branch' = "moved" THEN MovedToNearestNeighbour
                                  ELSE cat' = cat]_vars

\* on its first move the agent passed over the open left neighbour of the
\* start cell, which is farther from the boundary, and took the top-left one
C14_Witness ==
    /\ branch = "moved"
    /\ state = PLAYING
    /\ Cardinality(Walls) = 1
    /\ cat = getNeighbours(StartPosition[1], StartPosition[2])[2]
    /\ isOpen(Model, getNeighbours(StartPosition[1], StartPosition[2])[1])

\* C15: for every position p, if p is enclosed among the walls that stand,
\* then p is enclosed among those walls and any one more.
C15_EnclosureMonotonic ==
    \A p \in Cells(w, h) :
        isEnclosed(Model, p)
            => \A c \in Cells(w, h) :
                  isEnclosed([isWall |-> [isWall EXCEPT ![c] = TRUE]], p)

\* the agent is enclosed in a pocket with another open cell, where one more
\* wall can still be placed
C15_Witness ==
    /\ state = WIN
    /\ isCaught(Model)
    /\ \E c \in Reachable(Model, cat) : c # cat

\* C17: getBlock(i, j) is the cell at (i, j) when 0 <= i < W and
\* 0 <= j < H, and null for every other coordinate, among them the
\* negative ones and i = W and j = H.
C17_GetBlockInBoundsOnly ==
    /\ \A c \in Around :
          getBlock(c[1], c[2]) = IF c \in Cells(w, h) THEN c ELSE Null
    /\ \A c \in Cells(w, h) :
          /\ getBlock(0 - 1, c[2]) = Null
          /\ getBlock(w, c[2]) = Null
          /\ getBlock(c[1], 0 - 1) = Null
          /\ getBlock(c[1], h) = Null

\* a click outside the grid was answered with the message for a missing
\* cell, walls standing on the board
C17_Witness ==
    /\ branch = "nocell"
    /\ statusText = MsgNoCell
    /\ ret = FALSE
    /\ Walls # {}

PlacesWall == op' = "playerClick" /\ placed' # Null

\* C18: every click that places a wall is made while PLAYING and raises
\* the number of walls by one, and that number never exceeds W*H - 1; as
\* reset() alone lowers it, to 0, a game holds at most W*H - 1 wall-placing
\* clicks, and when that many walls stand the game is no longer PLAYING.
\* Hence a run in which the reset button is used finitely often and walls
\* are placed again and again leaves PLAYING again and again.
C18_EveryGameEnds ==
    /\ [][/\ PlacesWall => /\ state = PLAYING
                           /\ Cardinality(Walls') = Cardinality(Walls) + 1
          /\ Cardinality(Walls') <= w * h - 1
          /\ (Cardinality(Walls') = w * h - 1 /\ w * h > 1)
                => state' # PLAYING]_vars
    /\ (<>[][op' # "reset"]_vars /\ []<><<PlacesWall>>_vars)
          => []<>(state # PLAYING)

\* the game has ended with a wall on every cell but the agent's
C18_Witness ==
    /\ op = "playerClick"
    /\ placed # Null
    /\ state # PLAYING
    /\ Cardinality(Walls) = w * h - 1

\* C19: when a wall is placed while PLAYING with the agent on a cell that is
\* not on the boundary, and the agent is not enclosed among the blocks after
\* the placement, then step() returns true: the agent moves and the concede
\* branch is not taken.
C19_NoConcedeOffBoundary ==
    [][(state = PLAYING /\ ~isBoundary(cat) /\ PlacesWall
          /\ ~EnclosedAfterPlacement)
          => (branch' = "moved" /\ cat' # cat /\ ret' = TRUE)]_vars

\* deep in a game the agent, not enclosed by the last wall, has moved on to
\* another cell off the boundary
C19_Witness ==
    /\ branch = "moved"
    /\ state = PLAYING
    /\ ~isBoundary(cat)
    /\ ~isCaught(Model)
    /\ Cardinality(Walls) >= 4

\* C20: between calls the status text agrees with the state: in WIN it is
\* the setter's win message, in LOSE the setter's lose message, and it is
\* never the concede message nor the game-over message, both of which are
\* overwritten before the call that writes them returns.
C20_StatusMatchesState ==
    /\ state = WIN => statusText = MsgWin
    /\ state = LOSE => statusText = MsgLose
    /\ statusText \notin {MsgConcede, MsgGameOver}

\* the concede branch has run and the status bar shows the win message
C20_Witness ==
    /\ branch = "concede"
    /\ state = WIN
    /\ statusText = MsgWin
    /\ statusText # MsgConcede
====
